---- MODULE Spec2Model ----
(***************************************************************************)
(* Model of the aqi-mqtt daemon (main.go): the EPA AQI calculation         *)
(* (calculateAQI, computeAQI), the message handler (handleMessage) and the *)
(* broker life cycle of main.                                              *)
(*                                                                         *)
(* Numbers.  A concentration is an integer counting hundredths of ug/m3    *)
(* (3570 is 35.70).  A truncated concentration and the ConcLow / ConcHigh  *)
(* of a breakpoint count tenths (357 is 35.7).  The float64 expression of  *)
(* main.go:98-100 is modelled by the exact rational it approximates; the   *)
(* two agree after math.Round at every tenth of the modelled range, the    *)
(* exact halves included (float64 evaluates them exactly).                 *)
(***************************************************************************)
EXTENDS Integers, Sequences, FiniteSets

VARIABLES
    pm25Breakpoints,  \* package variable pm25Breakpoints
    pm10Breakpoints,  \* package variable pm10Breakpoints
    concentration,    \* calculateAQI: argument concentration (hundredths)
    pollutant,        \* calculateAQI: which table is passed as breakpoints
    subIndex,         \* calculateAQI: returned value, NoValue before the call
    pm25,             \* computeAQI: argument pm25 (hundredths)
    pm10,             \* computeAQI: argument pm10 (hundredths)
    aqi,              \* computeAQI: returned value, NoValue before the call
    calls,            \* computeAQI: the local variables of each concurrent call
    args,             \* main: the command line the daemon was started with
    mainPc,           \* main: position in main()
    connection,       \* main: broker address and client id of the open connection
    subscription,     \* main: topics the client is subscribed to
    received,         \* handleMessage: payloads handed to the handler, in order
    published         \* handleMessage: client.Publish calls, in order

vars == << pm25Breakpoints, pm10Breakpoints, concentration, pollutant, subIndex,
           pm25, pm10, aqi, calls, args, mainPc, connection, subscription, received,
           published >>

tableVars == << pm25Breakpoints, pm10Breakpoints >>
calcVars == << concentration, pollutant, subIndex >>
computeVars == << pm25, pm10, aqi >>
daemonVars == << args, mainPc, connection, subscription, received, published >>

----------------------------------------------------------------------------
(* Bounds *)

\* highest concentration drawn, in hundredths (610.00 ug/m3, above both tables)
MaxConc == 61000

\* lowest concentration drawn is -MinConcBelowZero hundredths
MinConcBelowZero == 20

\* distance, in hundredths, between two concentrations of the coarse grid
SampleStride == 250

NoValue == -1000000

\* number of calls of computeAQI that run at the same time
NumCallers == 2

\* no connection is open
NotConnected == [broker |-> "", clientID |-> ""]

----------------------------------------------------------------------------
(* Breakpoint tables, ConcLow and ConcHigh in tenths *)

AQIBreakpoint(lo, hi, alo, ahi) ==
    [ConcLow |-> lo, ConcHigh |-> hi, AQILow |-> alo, AQIHigh |-> ahi]

PM25Table ==
    << AQIBreakpoint(0, 120, 0, 50),
       AQIBreakpoint(121, 354, 51, 100),
       AQIBreakpoint(355, 554, 101, 150),
       AQIBreakpoint(555, 1504, 151, 200),
       AQIBreakpoint(1505, 2504, 201, 300),
       AQIBreakpoint(2505, 3504, 301, 400),
       AQIBreakpoint(3505, 5004, 401, 500) >>

\* variant: each tier begins where the tier before ends
PM10TableShared ==
    << AQIBreakpoint(0, 550, 0, 50),
       AQIBreakpoint(550, 1550, 51, 100),
       AQIBreakpoint(1550, 2550, 101, 150),
       AQIBreakpoint(2550, 3550, 151, 200),
       AQIBreakpoint(3550, 4250, 201, 300),
       AQIBreakpoint(4250, 5050, 301, 400),
       AQIBreakpoint(5050, 6040, 401, 500) >>

PM10Table ==
    << AQIBreakpoint(0, 540, 0, 50),
       AQIBreakpoint(550, 1540, 51, 100),
       AQIBreakpoint(1550, 2540, 101, 150),
       AQIBreakpoint(2550, 3540, 151, 200),
       AQIBreakpoint(3550, 4240, 201, 300),
       AQIBreakpoint(4250, 5040, 301, 400),
       AQIBreakpoint(5050, 6040, 401, 500) >>

----------------------------------------------------------------------------
(* calculateAQI *)

\* variant: truncates toward zero instead of taking the floor
TruncateTowardZero(c) == IF c < 0 THEN -((-c) \div 10) ELSE c \div 10

\* variant: rounds to the nearest tenth instead of truncating
TruncateRounding(c) == (c + 5) \div 10

\* math.Floor(concentration*10) / 10, as a count of tenths
Truncate(c) == c \div 10

\* variant: halves go to the even neighbour
RoundHalfEven(num, den) ==
    LET q == num \div den
        r == num % den
    IN  IF 2 * r < den THEN q
        ELSE IF 2 * r > den THEN q + 1
        ELSE IF q % 2 = 0 THEN q ELSE q + 1

\* variant: rounds every fraction up
RoundUp(num, den) == -((-num) \div den)

\* math.Round of the rational num/den (den > 0): nearest integer, halves
\* away from zero
Round(num, den) ==
    IF num >= 0
    THEN (2 * num + den) \div (2 * den)
    ELSE -((2 * (-num) + den) \div (2 * den))

\* variant: the upper bound of a tier is exclusive
InTierStrict(c10, bp) == c10 >= bp.ConcLow /\ c10 < bp.ConcHigh

\* the range condition of main.go:96
InTier(c10, bp) == c10 >= bp.ConcLow /\ c10 <= bp.ConcHigh

\* the EPA formula of main.go:98-100 for a tier that matched
Interpolate(c10, bp) ==
    Round((bp.AQIHigh - bp.AQILow) * (c10 - bp.ConcLow)
              + bp.AQILow * (bp.ConcHigh - bp.ConcLow),
          bp.ConcHigh - bp.ConcLow)

\* variant: past the last tier the formula of the last tier is extrapolated
RECURSIVE ScanTiersUncapped(_, _, _)
ScanTiersUncapped(c10, breakpoints, i) ==
    IF InTier(c10, breakpoints[i])
    THEN Interpolate(c10, breakpoints[i])
    ELSE IF i = Len(breakpoints)
         THEN IF c10 > breakpoints[i].ConcHigh
              THEN Interpolate(c10, breakpoints[i])
              ELSE 500
         ELSE ScanTiersUncapped(c10, breakpoints, i + 1)

\* variant: a concentration that matches no tier yields 0
RECURSIVE ScanTiersNoMatchZero(_, _, _)
ScanTiersNoMatchZero(c10, breakpoints, i) ==
    IF i > Len(breakpoints)
    THEN 0
    ELSE IF InTier(c10, breakpoints[i])
         THEN Interpolate(c10, breakpoints[i])
         ELSE ScanTiersNoMatchZero(c10, breakpoints, i + 1)

\* the loop of main.go:95-102 from tier i on, then the fallthrough return 500
RECURSIVE ScanTiers(_, _, _)
ScanTiers(c10, breakpoints, i) ==
    IF i > Len(breakpoints)
    THEN 500
    ELSE IF InTier(c10, breakpoints[i])
         THEN Interpolate(c10, breakpoints[i])
         ELSE ScanTiers(c10, breakpoints, i + 1)

calculateAQI(c, breakpoints) == ScanTiers(Truncate(c), breakpoints, 1)

\* variant: the comparison is inverted, the lower sub-index is returned
computeAQILower(p25, p10) ==
    LET aqiPM25 == calculateAQI(p25, pm25Breakpoints)
        aqiPM10 == calculateAQI(p10, pm10Breakpoints)
    IN  IF aqiPM25 < aqiPM10 THEN aqiPM25 ELSE aqiPM10

\* computeAQI: the higher of the two sub-indices
computeAQI(p25, p10) ==
    LET aqiPM25 == calculateAQI(p25, pm25Breakpoints)
        aqiPM10 == calculateAQI(p10, pm10Breakpoints)
    IN  IF aqiPM25 > aqiPM10 THEN aqiPM25 ELSE aqiPM10

----------------------------------------------------------------------------
(* Calls of calculateAQI on one concentration and one table *)

Concentrations == (-MinConcBelowZero)..MaxConc

Pollutants == {"pm25", "pm10"}

TableOf(p) == IF p = "pm25" THEN pm25Breakpoints ELSE pm10Breakpoints

Callers == 1..NumCallers

\* the local variables of one call of computeAQI and of the call of
\* calculateAQI it is in: arguments pm25 and pm10, the table in use, the
\* truncated concentration, the loop position, the two sub-indices, the
\* returned value
CallFrame(p25, p10) ==
    [pc |-> "call25", pm25 |-> p25, pm10 |-> p10, which |-> "pm25",
     concentration |-> 0, i |-> 1,
     aqiPM25 |-> NoValue, aqiPM10 |-> NoValue, result |-> NoValue]

CallersIdle == calls = [c \in Callers |-> CallFrame(0, 0)]

TablesInit ==
    /\ pm25Breakpoints = PM25Table
    /\ pm10Breakpoints = PM10Table

CalcIdle ==
    /\ concentration = 0
    /\ pollutant = "pm25"
    /\ subIndex = NoValue

ComputeIdle ==
    /\ pm25 = 0
    /\ pm10 = 0
    /\ aqi = NoValue

\* the command line that names the addresses main.go uses
HardcodedArgs ==
    [broker |-> "192.168.2.71", port |-> 1883,
     inputTopic |-> "airgradient/readings/d83bda1d7660",
     outputTopic |-> "aqi", clientID |-> "aqi-calculator"]

DaemonIdle ==
    /\ args = HardcodedArgs
    /\ mainPc = "start"
    /\ connection = NotConnected
    /\ subscription = {}
    /\ received = << >>
    /\ published = << >>

InitCalc ==
    /\ TablesInit
    /\ CallersIdle
    /\ concentration \in Concentrations
    /\ pollutant \in Pollutants
    /\ subIndex = NoValue
    /\ ComputeIdle
    /\ DaemonIdle

CallCalculateAQI ==
    /\ subIndex = NoValue
    /\ subIndex' = calculateAQI(concentration, TableOf(pollutant))
    /\ UNCHANGED << tableVars, calls, concentration, pollutant, computeVars, daemonVars >>

NextCalc == CallCalculateAQI

SpecCalc == InitCalc /\ [][NextCalc]_vars

----------------------------------------------------------------------------
(* Repeated calls of calculateAQI with one table, and calls of computeAQI, *)
(* on a sample of the concentrations: a coarse grid, the neighbourhood of  *)
(* every breakpoint of both tables, and the documented examples            *)

BoundaryTenths ==
    UNION { { PM25Table[i].ConcLow, PM25Table[i].ConcHigh,
              PM10Table[i].ConcLow, PM10Table[i].ConcHigh } : i \in 1..7 }

NearOffsets == {-10, -1, 0, 5, 9, 10}

DocumentedExamples == {60, 800, 1000, 2000, 3549, 3570, 4500, 5300, 10000, 20000, 60000}

SampleConcs ==
    ( { 10 * b + d : b \in BoundaryTenths, d \in NearOffsets }
      \cup { SampleStride * n : n \in 0..(MaxConc \div SampleStride) }
      \cup DocumentedExamples )
    \cap Concentrations

InitRecalc ==
    /\ TablesInit
    /\ CallersIdle
    /\ concentration \in SampleConcs
    /\ pollutant \in Pollutants
    /\ subIndex = NoValue
    /\ ComputeIdle
    /\ DaemonIdle

\* a further call with the same table and another concentration
CallCalculateAQIAgain ==
    /\ subIndex # NoValue
    /\ \E c \in SampleConcs :
          /\ concentration' = c
          /\ subIndex' = calculateAQI(c, TableOf(pollutant))
    /\ UNCHANGED << tableVars, calls, pollutant, computeVars, daemonVars >>

NextRecalc == CallCalculateAQI \/ CallCalculateAQIAgain

SpecRecalc == InitRecalc /\ [][NextRecalc]_vars

InitCompute ==
    /\ TablesInit
    /\ CallersIdle
    /\ CalcIdle
    /\ pm25 \in SampleConcs
    /\ pm10 \in SampleConcs
    /\ aqi = NoValue
    /\ DaemonIdle

CallComputeAQI ==
    /\ aqi = NoValue
    /\ aqi' = computeAQI(pm25, pm10)
    /\ UNCHANGED << tableVars, calls, calcVars, pm25, pm10, daemonVars >>

NextCompute == CallComputeAQI

SpecCompute == InitCompute /\ [][NextCompute]_vars

----------------------------------------------------------------------------
(* JSON payloads.  A number counts hundredths (3570 is 35.7, 100 is 1).    *)

JNum(n) == [type |-> "number", num |-> n, str |-> ""]
JStr(t) == [type |-> "string", num |-> 0, str |-> t]
JNull == [type |-> "null", num |-> 0, str |-> ""]

Member(k, v) == [key |-> k, val |-> v]

\* a payload that is a JSON object, its members in textual order
JObject(ms) == [kind |-> "object", members |-> ms]
\* the payload "null"
JNullPayload == [kind |-> "null", members |-> << >>]
\* a payload that is not JSON
NotJSON == [kind |-> "invalid", members |-> << >>]

\* the fields of SensorReading in declaration order: JSON name, the name
\* folded to lower case, Go type
Field(n, f, t) == [name |-> n, fold |-> f, kind |-> t]

SensorReadingFields ==
    << Field("pm01", "pm01", "float64"),
       Field("pm02", "pm02", "float64"),
       Field("pm10", "pm10", "float64"),
       Field("pm01Standard", "pm01standard", "float64"),
       Field("pm02Standard", "pm02standard", "float64"),
       Field("pm10Standard", "pm10standard", "float64"),
       Field("pm003Count", "pm003count", "float64"),
       Field("pm005Count", "pm005count", "float64"),
       Field("pm01Count", "pm01count", "float64"),
       Field("pm02Count", "pm02count", "float64"),
       Field("atmp", "atmp", "float64"),
       Field("atmpCompensated", "atmpcompensated", "float64"),
       Field("rhum", "rhum", "float64"),
       Field("rhumCompensated", "rhumcompensated", "float64"),
       Field("pm02Compensated", "pm02compensated", "float64"),
       Field("rco2", "rco2", "float64"),
       Field("tvocIndex", "tvocindex", "float64"),
       Field("tvocRaw", "tvocraw", "float64"),
       Field("noxIndex", "noxindex", "float64"),
       Field("noxRaw", "noxraw", "float64"),
       Field("boot", "boot", "int"),
       Field("bootCount", "bootcount", "int"),
       Field("wifi", "wifi", "int"),
       Field("serialno", "serialno", "string"),
       Field("firmware", "firmware", "string"),
       Field("model", "model", "string") >>

FieldNames == { SensorReadingFields[i].name : i \in 1..Len(SensorReadingFields) }

\* the field of SensorReading with a JSON name
FieldNamed(n) ==
    SensorReadingFields[CHOOSE i \in 1..Len(SensorReadingFields) :
                            SensorReadingFields[i].name = n]

\* the zero value of a Go type, as the JSON value it marshals to
ZeroValue(kind) == IF kind = "string" THEN JStr("") ELSE JNum(0)

\* var reading SensorReading
ZeroReading == [n \in FieldNames |-> ZeroValue(FieldNamed(n).kind)]

\* a key folded to lower case; the keys the model draws that name no field
\* are lower case already
FoldCase(k) == IF k \in FieldNames THEN FieldNamed(k).fold ELSE k

\* encoding/json: the struct field a key decodes into, the exact name
\* first, then the case-insensitive match; {} for an unknown key
FieldsFor(k) ==
    IF k \in FieldNames
    THEN { i \in 1..Len(SensorReadingFields) : SensorReadingFields[i].name = k }
    ELSE { i \in 1..Len(SensorReadingFields) :
               SensorReadingFields[i].fold = FoldCase(k) }

\* encoding/json: whether a JSON value can be stored in a field of a type
Assignable(v, kind) ==
    CASE kind = "float64" -> v.type = "number"
      [] kind = "int" -> v.type = "number" /\ v.num % 100 = 0
      [] kind = "string" -> v.type = "string"

\* encoding/json: the members of an object decoded in order into reading;
\* an unknown key is skipped, null leaves the field as it is, a value of
\* the wrong type is skipped and reported when decoding ends
RECURSIVE DecodeMembers(_, _, _, _)
DecodeMembers(ms, i, reading, failed) ==
    IF i > Len(ms)
    THEN [err |-> failed, reading |-> reading]
    ELSE LET m == ms[i]
             fs == FieldsFor(m.key)
         IN  IF fs = {} \/ m.val.type = "null"
             THEN DecodeMembers(ms, i + 1, reading, failed)
             ELSE LET f == SensorReadingFields[CHOOSE j \in fs : TRUE]
                  IN  IF Assignable(m.val, f.kind)
                      THEN DecodeMembers(ms, i + 1,
                               [reading EXCEPT ![f.name] = m.val], failed)
                      ELSE DecodeMembers(ms, i + 1, reading, TRUE)

\* variant: a payload that is not JSON decodes without an error
UnmarshalNoSyntaxError(payload) ==
    CASE payload.kind = "invalid" -> [err |-> FALSE, reading |-> ZeroReading]
      [] payload.kind = "null" -> [err |-> FALSE, reading |-> ZeroReading]
      [] payload.kind = "object" ->
            DecodeMembers(payload.members, 1, ZeroReading, FALSE)

\* json.Unmarshal(msg.Payload(), &reading)
Unmarshal(payload) ==
    CASE payload.kind = "invalid" -> [err |-> TRUE, reading |-> ZeroReading]
      [] payload.kind = "null" -> [err |-> FALSE, reading |-> ZeroReading]
      [] payload.kind = "object" ->
            DecodeMembers(payload.members, 1, ZeroReading, FALSE)

\* json.Marshal(aqiReading): the promoted fields of the embedded
\* SensorReading in declaration order, then aqi
Marshal(reading, index) ==
    JObject([i \in 1..(Len(SensorReadingFields) + 1) |->
                IF i <= Len(SensorReadingFields)
                THEN Member(SensorReadingFields[i].name,
                            reading[SensorReadingFields[i].name])
                ELSE Member("aqi", JNum(100 * index))])

----------------------------------------------------------------------------
(* main and handleMessage *)

\* most messages delivered to the handler in one run
MaxMessages == 2

broker == "tcp://192.168.2.71:1883"
inputTopic == "airgradient/readings/d83bda1d7660"
outputTopic == "aqi"
clientID == "aqi-calculator"

\* the command line of TestEndToEndHappyPath
TestArgs ==
    [broker |-> "localhost", port |-> 21883,
     inputTopic |-> "test/airgradient/readings",
     outputTopic |-> "test/aqi", clientID |-> "aqi-daemon-test"]

\* the broker address "tcp://<host>:<port>" a command line asks for
BrokerURL(a) ==
    IF a.broker = "localhost" /\ a.port = 21883
    THEN "tcp://localhost:21883"
    ELSE "tcp://192.168.2.71:1883"

\* the command lines the daemon is started with
CommandLines == {HardcodedArgs, TestArgs}

OptionalPM02 == { << >>, << Member("pm02Standard", JNum(3570)) >> }

OptionalPM10 ==
    { << >>,
      << Member("pm10Standard", JNum(4500)) >>,
      << Member("pm10Standard", JNum(5450)) >> }

OtherMembers ==
    { << >>,
      << Member("serialno", JStr("d83bda1d7660")) >>,
      << Member("wifi", JNum(-6900)) >>,
      << Member("boot", JNum(250)) >>,
      << Member("serialno", JNum(100)) >>,
      << Member("extra", JNum(100)) >> }

\* the payloads a message can carry
Payloads ==
    { JObject(a \o b \o c) :
          a \in OptionalPM02, b \in OptionalPM10, c \in OtherMembers }
    \cup { JNullPayload, NotJSON }

Init ==
    /\ TablesInit
    /\ CallersIdle
    /\ CalcIdle
    /\ ComputeIdle
    /\ args \in CommandLines
    /\ mainPc = "start"
    /\ connection = NotConnected
    /\ subscription = {}
    /\ received = << >>
    /\ published = << >>

\* client.Connect() succeeds
Connect ==
    /\ mainPc = "start"
    /\ mainPc' = "connected"
    /\ connection' = [broker |-> broker, clientID |-> clientID]
    /\ UNCHANGED << tableVars, calls, calcVars, computeVars, args, subscription, received, published >>

\* client.Connect() fails: log.Fatalf
ConnectFails ==
    /\ mainPc = "start"
    /\ mainPc' = "fatalConnect"
    /\ UNCHANGED << tableVars, calls, calcVars, computeVars, args, connection, subscription, received, published >>

\* client.Subscribe(inputTopic, 1, ...) succeeds
Subscribe ==
    /\ mainPc = "connected"
    /\ mainPc' = "subscribed"
    /\ subscription' = subscription \cup {inputTopic}
    /\ UNCHANGED << tableVars, calls, calcVars, computeVars, args, connection, received, published >>

\* client.Subscribe fails: log.Fatalf ends the process and its connection
SubscribeFails ==
    /\ mainPc = "connected"
    /\ mainPc' = "fatalSubscribe"
    /\ connection' = NotConnected
    /\ UNCHANGED << tableVars, calls, calcVars, computeVars, args, subscription, received, published >>

\* handleMessage(client, msg, outputTopic) for a message of the subscription
HandleMessage ==
    /\ inputTopic \in subscription
    /\ Len(received) < MaxMessages
    /\ \E payload \in Payloads :
          LET decoded == Unmarshal(payload)
              reading == decoded.reading
              index == computeAQI(reading["pm02Standard"].num,
                                  reading["pm10Standard"].num)
          IN  /\ received' = Append(received, payload)
              /\ published' =
                    IF decoded.err
                    THEN published
                    ELSE Append(published,
                                [topic |-> outputTopic,
                                 payload |-> Marshal(reading, index)])
    /\ UNCHANGED << tableVars, calls, calcVars, computeVars, args, mainPc, connection, subscription >>

\* <-sigChan: SIGINT or SIGTERM arrives
Signal ==
    /\ mainPc = "subscribed"
    /\ mainPc' = "shutdown"
    /\ UNCHANGED << tableVars, calls, calcVars, computeVars, args, connection, subscription, received, published >>

\* client.Unsubscribe(inputTopic)
Unsubscribe ==
    /\ mainPc = "shutdown"
    /\ mainPc' = "unsubscribed"
    /\ subscription' = subscription \ {inputTopic}
    /\ UNCHANGED << tableVars, calls, calcVars, computeVars, args, connection, received, published >>

\* variant: the connection is closed before the topic is unsubscribed
DisconnectBeforeUnsubscribe ==
    /\ mainPc = "shutdown"
    /\ mainPc' = "done"
    /\ connection' = NotConnected
    /\ UNCHANGED << tableVars, calls, calcVars, computeVars, args, subscription, received, published >>

\* client.Disconnect(250), then main returns
Disconnect ==
    /\ mainPc = "unsubscribed"
    /\ mainPc' = "done"
    /\ connection' = NotConnected
    /\ UNCHANGED << tableVars, calls, calcVars, computeVars, args, subscription, received, published >>

Next ==
    \/ Connect
    \/ ConnectFails
    \/ Subscribe
    \/ SubscribeFails
    \/ HandleMessage
    \/ Signal
    \/ Unsubscribe
    \/ Disconnect

Spec == Init /\ [][Next]_vars

----------------------------------------------------------------------------
(* Concurrent calls of computeAQI, one statement at a time *)

\* the argument pairs the concurrent calls are made with
ConcurrentInputs == { << 3570, 4500 >>, << 1000, 20000 >>, << 60000, 5450 >> }

InitConcurrent ==
    /\ TablesInit
    /\ CalcIdle
    /\ ComputeIdle
    /\ DaemonIdle
    /\ calls \in [Callers -> { CallFrame(in[1], in[2]) : in \in ConcurrentInputs }]

\* variant: the truncated concentration is kept in a package variable that
\* all calls share
WithSharedConcentration(cs, self, c10) ==
    [c \in DOMAIN cs |-> [cs[c] EXCEPT !.concentration = c10]]

\* the assignment to the parameter concentration of main.go:93
WithConcentration(cs, self, c10) == [cs EXCEPT ![self].concentration = c10]

\* calculateAQI is entered and truncates its argument (main.go:93)
EnterCalculateAQI(self) ==
    /\ calls[self].pc \in {"call25", "call10"}
    /\ calls' = WithConcentration(
                    [calls EXCEPT ![self].pc = "loop", ![self].i = 1],
                    self,
                    Truncate(IF calls[self].which = "pm25"
                             THEN calls[self].pm25
                             ELSE calls[self].pm10))
    /\ UNCHANGED << tableVars, calcVars, computeVars, daemonVars >>

\* calculateAQI returns v to computeAQI (main.go:111-112)
Returned(self, v) ==
    IF calls[self].which = "pm25"
    THEN [calls EXCEPT ![self].aqiPM25 = v, ![self].which = "pm10",
                       ![self].pc = "call10"]
    ELSE [calls EXCEPT ![self].aqiPM10 = v, ![self].pc = "compare"]

\* one iteration of the loop of main.go:95-102 ends the call with the
\* interpolated value
TierMatches(self) ==
    /\ calls[self].pc = "loop"
    /\ calls[self].i <= Len(TableOf(calls[self].which))
    /\ InTier(calls[self].concentration, TableOf(calls[self].which)[calls[self].i])
    /\ calls' = Returned(self,
                    Interpolate(calls[self].concentration,
                                TableOf(calls[self].which)[calls[self].i]))
    /\ UNCHANGED << tableVars, calcVars, computeVars, daemonVars >>

\* one iteration of the loop goes on to the next tier
TierSkipped(self) ==
    /\ calls[self].pc = "loop"
    /\ calls[self].i <= Len(TableOf(calls[self].which))
    /\ ~InTier(calls[self].concentration, TableOf(calls[self].which)[calls[self].i])
    /\ calls' = [calls EXCEPT ![self].i = @ + 1]
    /\ UNCHANGED << tableVars, calcVars, computeVars, daemonVars >>

\* the loop is over without a match: return 500 (main.go:105)
NoTierMatched(self) ==
    /\ calls[self].pc = "loop"
    /\ calls[self].i > Len(TableOf(calls[self].which))
    /\ calls' = Returned(self, 500)
    /\ UNCHANGED << tableVars, calcVars, computeVars, daemonVars >>

\* computeAQI returns the higher sub-index (main.go:115-118)
ReturnMaximum(self) ==
    /\ calls[self].pc = "compare"
    /\ calls' = [calls EXCEPT
                    ![self].result = IF calls[self].aqiPM25 > calls[self].aqiPM10
                                     THEN calls[self].aqiPM25
                                     ELSE calls[self].aqiPM10,
                    ![self].pc = "done"]
    /\ UNCHANGED << tableVars, calcVars, computeVars, daemonVars >>

NextConcurrent ==
    \E self \in Callers :
        \/ EnterCalculateAQI(self)
        \/ TierMatches(self)
        \/ TierSkipped(self)
        \/ NoTierMatched(self)
        \/ ReturnMaximum(self)

SpecConcurrent == InitConcurrent /\ [][NextConcurrent]_vars

----------------------------------------------------------------------------
(* Properties of calculateAQI and computeAQI *)

\* the concentration of the last call truncates into the gap above tier i
InGapAbove(breakpoints, i) ==
    /\ Truncate(concentration) > breakpoints[i].ConcHigh
    /\ Truncate(concentration) < breakpoints[i + 1].ConcLow

\* C1: a PM10 concentration whose truncated value lies strictly between a
\* tier's ConcHigh and the next tier's ConcLow gets a sub-index inside the
\* lower tier's AQI range (54.5 and 54.9 give 50, 154.5 gives 100), not 500.
C1_GapBelongsToLowerTier ==
    (pollutant = "pm10" /\ subIndex # NoValue) =>
        /\ \A i \in 1..(Len(pm10Breakpoints) - 1) :
              InGapAbove(pm10Breakpoints, i) =>
                  /\ subIndex >= pm10Breakpoints[i].AQILow
                  /\ subIndex <= pm10Breakpoints[i].AQIHigh
                  /\ subIndex # 500
        /\ concentration \in {5450, 5490} => subIndex = 50
        /\ concentration = 15450 => subIndex = 100

\* C2: with one table, a call on a concentration that is not lower than the
\* non-negative concentration of the call before returns a sub-index that
\* is not lower.
C2_Monotone ==
    [][ ( /\ subIndex # NoValue
          /\ concentration >= 0
          /\ concentration' >= concentration
          /\ pollutant' = pollutant )
        => subIndex' >= subIndex ]_vars

\* C3: for non-negative PM2.5 and PM10 concentrations computeAQI returns an
\* integer between 0 and 500.
C3_ResultInRange ==
    (aqi # NoValue /\ pm25 >= 0 /\ pm10 >= 0) => aqi \in 0..500

C3_Witness ==
    /\ pm25 = 60000
    /\ pm10 = 2000
    /\ aqi = 500

\* the larger of two integers, by its defining property
MaxOf(a, b) == CHOOSE m \in {a, b} : \A x \in {a, b} : m >= x

\* C4: computeAQI(a, b) is the maximum of the PM2.5 sub-index of a and the
\* PM10 sub-index of b; PM2.5 = 10.0 with PM10 = 200.0 gives the PM10
\* sub-index 123.
C4_MaxOfSubIndices ==
    aqi # NoValue =>
        /\ aqi = MaxOf(calculateAQI(pm25, pm25Breakpoints),
                       calculateAQI(pm10, pm10Breakpoints))
        /\ (pm25 = 1000 /\ pm10 = 20000) => aqi = 123

C4_Witness ==
    /\ pm25 = 1000
    /\ pm10 = 20000
    /\ aqi = 123
    /\ calculateAQI(pm25, pm25Breakpoints) < 123

C6_HalfOpenInterpolation ==
    (pollutant = "pm10" /\ subIndex # NoValue) =>
        /\ concentration = 4500 => subIndex = 41
        /\ concentration = 5300 => subIndex = 48
        /\ concentration = 5400 => subIndex = 49
        /\ concentration = 10000 => subIndex = 73
        /\ concentration = 15400 => subIndex = 100

\* C7: concentrations are truncated to one decimal before the lookup: every
\* non-negative concentration with the same tenth gives the same sub-index;
\* PM2.5 = 35.49 gives 100 as 35.40 does, not the 101 of 35.5.
C7_TruncatedToOneDecimal ==
    (subIndex # NoValue /\ concentration >= 0) =>
        /\ \A d \in 0..9 :
              calculateAQI(10 * (concentration \div 10) + d, TableOf(pollutant))
                  = subIndex
        /\ (pollutant = "pm25" /\ concentration \in {3540, 3549}) => subIndex = 100

C7_Witness ==
    /\ pollutant = "pm25"
    /\ concentration = 3549
    /\ subIndex = 100

\* C8: a concentration whose truncated value is above the ConcHigh of the
\* last tier (PM2.5 >= 500.5, PM10 >= 604.1) gives exactly 500.
C8_SaturatesAt500 ==
    ( /\ subIndex # NoValue
      /\ Truncate(concentration)
            > TableOf(pollutant)[Len(TableOf(pollutant))].ConcHigh )
    => subIndex = 500

C8_Witness ==
    /\ pollutant = "pm10"
    /\ concentration = 60410
    /\ subIndex = 500

----------------------------------------------------------------------------
(* Properties of handleMessage *)

\* the value a payload gives to a key, the Go zero value without the key
ValueIn(payload, k) ==
    IF \E i \in 1..Len(payload.members) : payload.members[i].key = k
    THEN payload.members[
             CHOOSE i \in 1..Len(payload.members) :
                 /\ payload.members[i].key = k
                 /\ \A j \in (i + 1)..Len(payload.members) :
                       payload.members[j].key # k].val.num
    ELSE 0

\* C10: for every incoming message whose payload parses, handleMessage
\* publishes exactly one message to the output topic; it carries every field
\* of the input with its value unchanged and an aqi field equal to
\* computeAQI(pm02Standard, pm10Standard) of the input.
C10_OutputIsInputPlusAQI ==
    [][ ( /\ Len(received') = Len(received) + 1
          /\ ~Unmarshal(received'[Len(received')]).err )
        =>
        /\ Len(published') = Len(published) + 1
        /\ LET in == received'[Len(received')]
               out == published'[Len(published')]
           IN  /\ out.topic = outputTopic
               /\ \A i \in 1..Len(in.members) :
                     \E j \in 1..Len(out.payload.members) :
                         out.payload.members[j] = in.members[i]
               /\ \E j \in 1..Len(out.payload.members) :
                     out.payload.members[j] =
                         Member("aqi",
                                JNum(100 * computeAQI(ValueIn(in, "pm02Standard"),
                                                      ValueIn(in, "pm10Standard"))))
      ]_vars

----------------------------------------------------------------------------
(* Properties of main *)

\* C11: the daemon connects to the broker and with the client id of its
\* command line, subscribes to the input topic of its command line and
\* publishes only to the output topic of its command line.
C11_UsesConfiguration ==
    /\ connection # NotConnected =>
          /\ connection.broker = BrokerURL(args)
          /\ connection.clientID = args.clientID
    /\ subscription \subseteq {args.inputTopic}
    /\ \A i \in 1..Len(published) : published[i].topic = args.outputTopic

----------------------------------------------------------------------------
(* Rounding *)

\* the interpolated value of c10 in tier bp, less AQILow, as a fraction
ScaledNum(c10, bp) == (bp.AQIHigh - bp.AQILow) * (c10 - bp.ConcLow)
ScaledDen(bp) == bp.ConcHigh - bp.ConcLow

\* the interpolated value lies exactly halfway between two integers
IsHalfway(c10, bp) == (2 * ScaledNum(c10, bp)) % (2 * ScaledDen(bp)) = ScaledDen(bp)

\* the integer just below the interpolated value
IntegerBelow(c10, bp) == bp.AQILow + (ScaledNum(c10, bp) \div ScaledDen(bp))

\* C12 as stated: an interpolated value exactly halfway between two integers
\* is rounded to the even one; PM2.5 = 0.6 (interpolated 2.5) gives 2.
C12_RoundHalfToEven ==
    subIndex # NoValue =>
        /\ \A i \in 1..Len(TableOf(pollutant)) :
              ( /\ InTier(Truncate(concentration), TableOf(pollutant)[i])
                /\ IsHalfway(Truncate(concentration), TableOf(pollutant)[i]) )
              => subIndex % 2 = 0
        /\ (pollutant = "pm25" /\ concentration = 60) => subIndex = 2

\* C12 amended: an interpolated value exactly halfway between two integers
\* is rounded away from zero, to the integer above; PM2.5 = 0.6
\* (interpolated 2.5) gives 3.
C12_RoundHalfAwayFromZero ==
    subIndex # NoValue =>
        /\ \A i \in 1..Len(TableOf(pollutant)) :
              ( /\ InTier(Truncate(concentration), TableOf(pollutant)[i])
                /\ IsHalfway(Truncate(concentration), TableOf(pollutant)[i]) )
              => subIndex
                    = IntegerBelow(Truncate(concentration), TableOf(pollutant)[i]) + 1
        /\ (pollutant = "pm25" /\ concentration = 60) => subIndex = 3

C12_Witness ==
    /\ pollutant = "pm25"
    /\ concentration = 60
    /\ IsHalfway(Truncate(concentration), pm25Breakpoints[1])
    /\ subIndex = 3

----------------------------------------------------------------------------
(* Messages that do not parse *)

\* a payload that is not JSON was handled before
SawInvalidPayload ==
    \E i \in 1..Len(received) : received[i].kind = "invalid"

\* the next step hands a further payload to handleMessage
HandlesPayload == Len(received') = Len(received) + 1

\* C13: for a payload that is not JSON handleMessage publishes nothing and
\* returns, leaving main and the subscription as they are; a valid message
\* that arrives after such a payload is still processed and published.
C13_ParseErrorIsSkipped ==
    [][ HandlesPayload =>
          LET payload == received'[Len(received')]
          IN  /\ payload.kind = "invalid" =>
                    /\ published' = published
                    /\ subscription' = subscription
                    /\ mainPc' = mainPc
                    /\ connection' = connection
              /\ ( /\ SawInvalidPayload
                   /\ payload.kind = "object"
                   /\ \A i \in 1..Len(payload.members) :
                         \A j \in FieldsFor(payload.members[i].key) :
                             Assignable(payload.members[i].val,
                                        SensorReadingFields[j].kind) )
                 => /\ Len(published') = Len(published) + 1
                    /\ published'[Len(published')].topic = outputTopic
      ]_vars

C13_Witness ==
    /\ Len(received) = 2
    /\ received[1] = NotJSON
    /\ received[2] = JObject(<< Member("pm02Standard", JNum(3570)),
                                Member("pm10Standard", JNum(4500)) >>)
    /\ Len(published) = 1
    /\ inputTopic \in subscription

----------------------------------------------------------------------------
(* Order of the broker operations *)

\* what holds at each position of main
LifeCycleInv ==
    /\ subscription # {} => connection # NotConnected
    /\ mainPc \in {"start", "fatalConnect"} =>
          connection = NotConnected /\ subscription = {}
    /\ mainPc \in {"start", "connected", "fatalConnect", "fatalSubscribe"} =>
          /\ subscription = {}
          /\ received = << >>
          /\ published = << >>
    /\ mainPc \in {"fatalConnect", "fatalSubscribe", "done"} =>
          connection = NotConnected
    /\ mainPc \in {"unsubscribed", "done"} => subscription = {}

\* the order in which the operations follow each other
LifeCycleStep ==
    \* subscribing needs the connection
    /\ (subscription = {} /\ subscription' # {}) =>
          /\ connection # NotConnected
          /\ subscription' = {inputTopic}
    \* a message is handled only under the subscription
    /\ received' # received => inputTopic \in subscription
    \* the connection is closed only after the topic is unsubscribed
    /\ (connection # NotConnected /\ connection' = NotConnected) =>
          subscription = {}
    \* a signal leads to unsubscribe, then disconnect, then the end
    /\ mainPc = "shutdown" =>
          mainPc' = "shutdown" \/ (mainPc' = "unsubscribed" /\ subscription' = {})
    /\ mainPc = "unsubscribed" =>
          mainPc' = "unsubscribed"
              \/ (mainPc' = "done" /\ connection' = NotConnected)
    \* a process that has ended does nothing more
    /\ mainPc \in {"fatalConnect", "fatalSubscribe", "done"} => UNCHANGED vars

\* C14: the broker operations occur in the order connect, subscribe, message
\* handling, unsubscribe, disconnect: the daemon subscribes only after a
\* successful connect, a failed connect or subscribe ends the process with
\* no message handled and nothing published, and after a signal it
\* unsubscribes from the input topic before it disconnects and ends.
C14_LifeCycleOrder == [][LifeCycleInv /\ LifeCycleInv' /\ LifeCycleStep]_vars

C14_Witness ==
    /\ mainPc = "done"
    /\ connection = NotConnected
    /\ subscription = {}
    /\ Len(published) >= 1

----------------------------------------------------------------------------
(* The breakpoint tables *)

\* a table as the EPA publishes it
WellFormedTable(t) ==
    /\ Len(t) = 7
    /\ t[1].ConcLow = 0
    /\ t[1].AQILow = 0
    /\ t[Len(t)].AQIHigh = 500
    /\ \A i \in 1..Len(t) : t[i].ConcLow < t[i].ConcHigh
    /\ \A i \in 1..Len(t) : t[i].AQILow < t[i].AQIHigh
    /\ \A i \in 2..Len(t) :
          /\ t[i - 1].ConcHigh < t[i].ConcLow
          /\ t[i].AQILow = t[i - 1].AQIHigh + 1

\* C15: both tables have seven ascending tiers that do not overlap, start at
\* concentration 0 and AQI 0, end at AQI 500, have ConcLow < ConcHigh in
\* every tier and AQILow = the previous AQIHigh + 1; handling a message
\* (handleMessage, computeAQI, calculateAQI) never changes a table.
C15_TablesWellFormedAndConstant ==
    [][ /\ WellFormedTable(pm25Breakpoints)
        /\ WellFormedTable(pm10Breakpoints)
        /\ WellFormedTable(pm25Breakpoints')
        /\ WellFormedTable(pm10Breakpoints')
        /\ pm25Breakpoints' = pm25Breakpoints
        /\ pm10Breakpoints' = pm10Breakpoints ]_vars

C15_Witness ==
    /\ Len(received) = MaxMessages
    /\ Len(published) >= 1
    /\ WellFormedTable(pm25Breakpoints)
    /\ WellFormedTable(pm10Breakpoints)

----------------------------------------------------------------------------
(* Concurrent calls *)

\* C16: in every interleaving of concurrent calls of computeAQI each call
\* returns what it returns when it runs alone on its arguments; the calls
\* leave the tables as they are.
C16_ConcurrentCallsAgree ==
    /\ \A c \in Callers :
          calls[c].pc = "done" =>
              calls[c].result = computeAQI(calls[c].pm25, calls[c].pm10)
    /\ pm25Breakpoints = PM25Table
    /\ pm10Breakpoints = PM10Table

C16_Witness ==
    /\ \A c \in Callers : calls[c].pc = "done"
    /\ calls[1].pm25 = 3570
    /\ calls[1].result = 101
    /\ calls[2].pm25 = 1000
    /\ calls[2].result = 123

----------------------------------------------------------------------------
(* Negative concentrations *)

\* C17: a negative concentration, those between -0.1 and 0 included (their
\* floor is -0.1), matches no tier, so its sub-index is 500 and computeAQI
\* of a negative PM2.5 or PM10 reading is 500.
C17_NegativeGives500 ==
    aqi # NoValue =>
        /\ pm25 < 0 =>
              /\ Truncate(pm25) < 0
              /\ \A i \in 1..Len(pm25Breakpoints) :
                    ~InTier(Truncate(pm25), pm25Breakpoints[i])
              /\ calculateAQI(pm25, pm25Breakpoints) = 500
              /\ aqi = 500
        /\ pm10 < 0 =>
              /\ Truncate(pm10) < 0
              /\ \A i \in 1..Len(pm10Breakpoints) :
                    ~InTier(Truncate(pm10), pm10Breakpoints[i])
              /\ calculateAQI(pm10, pm10Breakpoints) = 500
              /\ aqi = 500

C17_Witness ==
    /\ pm25 = -1
    /\ pm10 = 2000
    /\ aqi = 500

====
